---- MODULE Spec2Model ----
(***************************************************************************)
(* gr-pipe sink (lib/sink_impl.cc): a stream sink that forwards fixed-size *)
(* records into the standard input of a child process run by "sh -c cmd".  *)
(*                                                                         *)
(* The model holds the sink object's fields, the parent's view of the      *)
(* pipe descriptors, the stdio stream wrapped around the write end, the    *)
(* kernel pipe, and the child process.  Bytes of the input stream are      *)
(* numbered 1, 2, 3, ... in the order the scheduler offers them, so that   *)
(* loss, duplication and reordering are visible in the child's input.      *)
(***************************************************************************)
EXTENDS Integers, Sequences, FiniteSets, TLC

\* ------------------------------------------------------------------ bounds
MaxBytes   == 3     \* bytes of input the scheduler offers over a lifetime
MaxPipeCap == 2     \* largest kernel pipe capacity explored (bytes)
BufSize    == 2     \* size of the stdio stream's buffer (bytes)
MaxItemSz  == 3     \* largest record size explored (bytes)

ItemSizes == 1..MaxItemSz
PipeCaps  == 1..MaxPipeCap
ExitCodes == {0, 7}
ChildPid  == 1      \* the pid fork() returns in the parent on success

\* errno values the code distinguishes; EWOULDBLOCK is EAGAIN on the target.
Errnos == {"NONE", "EAGAIN", "EPIPE", "EINTR", "ECHILD"}

\* what the command run by "sh -c cmd" does with its standard input
\*   cat   : reads to end-of-file, then exits with its exit code
\*   quit  : may read, and exits (or is killed) at any moment
\*   stall : never reads and never exits
ChildKinds == {"cat", "quit", "stall"}

VARIABLES
  pc,             \* position of the sink in its lifecycle
  fault,          \* how the host process or the construction ended abnormally
  d_in_item_sz,   \* record size in bytes
  d_unbuffered,   \* flush after every write
  d_cmd_pid,      \* 0 before fork, -1 fork failed, ChildPid
  d_cmd_stdin,    \* FILE*: "invalid" (never assigned), "open", "closed"
  fd_read,        \* parent's d_cmd_stdin_pipe[0]: "unset", "open", "closed"
  fd_write,       \* parent's d_cmd_stdin_pipe[1]
  nonblock,       \* O_NONBLOCK on the write end
  cloexec,        \* FD_CLOEXEC on the write end
  buf,            \* bytes held in the stdio buffer
  ferr,           \* the stream's error indicator
  errno,          \* the process-wide error number
  pipe,           \* bytes in the kernel pipe
  pipeCap,        \* capacity of the kernel pipe
  child,          \* "none", "running", "exited", "signaled", "reaped"
  childKind,      \* behaviour of the command
  childCode,      \* exit code the command exited with
  child_fds,      \* pipe ends the child's command holds
  childRead,      \* bytes the child has read from its standard input
  inPos,          \* bytes of the input stream the scheduler has advanced past
  lastWork,       \* outcome of the latest work() call
  outcome,        \* termination outcome reported by the destructor
  sigpipeIgnored, \* disposition of SIGPIPE in the host (the sink never sets it)
  libcDrops,      \* stdio discards its buffer when a flush fails
  reapedForeign,  \* the destructor's wait took a child the sink did not spawn
  everBuffered    \* some work() call so far ran with d_unbuffered false

vars == <<pc, fault, d_in_item_sz, d_unbuffered, d_cmd_pid, d_cmd_stdin,
          fd_read, fd_write, nonblock, cloexec, buf, ferr, errno, pipe,
          pipeCap, child, childKind, childCode, child_fds, childRead, inPos,
          lastWork, outcome, sigpipeIgnored, libcDrops,
          reapedForeign, everBuffered>>

sinkVars  == <<d_in_item_sz, d_unbuffered, d_cmd_pid, d_cmd_stdin>>
fdVars    == <<fd_read, fd_write, nonblock, cloexec>>
stdioVars == <<buf, ferr, errno>>
childVars == <<child, childKind, childCode, child_fds, childRead>>
envVars   == <<pipeCap, sigpipeIgnored, libcDrops, everBuffered>>
hostVars  == <<pipeCap, sigpipeIgnored, libcDrops>>

\* ----------------------------------------------------------------- helpers
Min(a, b) == IF a < b THEN a ELSE b

NoWork == [called |-> FALSE, count |-> 0, ret |-> 0, accepted |-> 0,
           bytes |-> 0, raised |-> FALSE, wouldblock |-> FALSE,
           hard |-> FALSE, unbuf |-> FALSE]

NoOutcome == [kind |-> "none", code |-> 0]

\* the bytes lo..hi of the input stream, in order
Bytes(lo, hi) == [i \in 1..(hi - lo + 1) |-> lo + i - 1]

\* the pipe has a reader while some process holds its read end
ReaderExists == fd_read = "open" \/ "stdin" \in child_fds

\* the pipe has a writer while some process holds its write end
WriterExists == fd_write = "open" \/ "pipe1" \in child_fds

\* what the stream's writes see of the descriptor, the pipe and the host
Env == [cap |-> pipeCap, reader |-> ReaderExists, ign |-> sigpipeIgnored,
        drops |-> libcDrops, nb |-> nonblock]

\* ------------------------------------------------------------------- stdio
\* write(2) on the pipe's write end, repeated by the stream until the data is
\* out or a call fails.  Without a reader the write raises SIGPIPE, or fails
\* with EPIPE when the signal is ignored.  With O_NONBLOCK set a full pipe
\* fails the write with EAGAIN; without it the caller is suspended.
PipeWrite(data, p, e) ==
  LET w == Min(Len(data), e.cap - Len(p))
  IN  IF ~e.reader
        THEN [pipe |-> p, n |-> 0, err |-> IF e.ign THEN "EPIPE" ELSE "SIGPIPE"]
        ELSE [pipe |-> p \o SubSeq(data, 1, w), n |-> w,
              err |-> IF w = Len(data) THEN "NONE"
                      ELSE IF e.nb THEN "EAGAIN" ELSE "BLOCK"]

\* the stream's buffer b after the write r of it: empty when all of it went
\* out; after a failed write the C library either keeps the unwritten bytes
\* or discards the buffer; a suspended write keeps what is still to go out
FlushResult(b, r, e) ==
  [buf  |-> IF r.err = "NONE" THEN <<>>
            ELSE IF r.err # "BLOCK" /\ e.drops THEN <<>>
            ELSE SubSeq(b, r.n + 1, Len(b)),
   pipe |-> r.pipe, n |-> r.n, err |-> r.err]

\* the stream writes its buffer out
Flush(b, p, e) ==
  IF b = <<>>
    THEN [buf |-> b, pipe |-> p, n |-> 0, err |-> "NONE"]
    ELSE FlushResult(b, PipeWrite(b, p, e), e)

\* the stream takes one more byte after the flush f of its full buffer
PutAfterFlush(st, byte, f) ==
  IF f.err = "NONE"
    THEN [buf |-> <<byte>>, pipe |-> f.pipe, accepted |-> st.accepted + 1,
          err |-> "NONE"]
    ELSE [buf |-> f.buf, pipe |-> f.pipe, accepted |-> st.accepted,
          err |-> f.err]

\* the stream takes one byte: into the buffer while it has room; a full
\* buffer is written out first, and a failed write stops the call
StreamPutByte(st, byte, e) ==
  IF st.err # "NONE" THEN st
  ELSE IF Len(st.buf) < BufSize
    THEN [st EXCEPT !.buf = Append(st.buf, byte), !.accepted = st.accepted + 1]
    ELSE PutAfterFlush(st, byte, Flush(st.buf, st.pipe, e))

\* the stream takes the bytes `data` in order, starting with buffer b and
\* pipe p; accepted counts the bytes taken before the first failed write
StreamPut(data, b, p, e) ==
  LET F[i \in 0..Len(data)] ==
        IF i = 0 THEN [buf |-> b, pipe |-> p, accepted |-> 0, err |-> "NONE"]
        ELSE StreamPutByte(F[i - 1], data[i], e)
  IN  F[Len(data)]

\* what fwrite returns for the stream result r: the number of whole items;
\* bytes is what the stream took of the data, whole items or not
FwriteResult(r, size) ==
  [buf |-> r.buf, pipe |-> r.pipe, ret |-> r.accepted \div size,
   bytes |-> r.accepted, err |-> r.err]

\* fwrite(in, size, nitems, stream)
fwrite(data, size, b, p, e) == FwriteResult(StreamPut(data, b, p, e), size)

\* fflush(stream)
fflush(b, p, e) == Flush(b, p, e)

\* the error indicator and errno after a stream operation that ended in err
FerrAfter(fe, err) == fe \/ err \in {"EAGAIN", "EPIPE"}
ErrnoAfter(en, err) == IF err \in {"EAGAIN", "EPIPE"} THEN err ELSE en

\* --------------------------------------------------------------------- Init
\* The object before the constructor body runs: in_item_sz and cmd are the
\* constructor's arguments; d_unbuffered is assigned nowhere in construction,
\* so its first value is whatever the build leaves there.
Init ==
  /\ pc = "Constructing"
  /\ fault = "none"
  /\ d_in_item_sz \in ItemSizes
  /\ d_unbuffered \in BOOLEAN
  /\ d_cmd_pid = 0
  /\ d_cmd_stdin = "invalid"
  /\ fd_read = "unset"
  /\ fd_write = "unset"
  /\ nonblock = FALSE
  /\ cloexec = FALSE
  /\ buf = <<>>
  /\ ferr = FALSE
  /\ errno = "NONE"
  /\ pipe = <<>>
  /\ pipeCap \in PipeCaps
  /\ child = "none"
  /\ childKind \in ChildKinds
  /\ childCode = 0
  /\ child_fds = {}
  /\ childRead = <<>>
  /\ inPos = 0
  /\ lastWork = NoWork
  /\ outcome = NoOutcome
  /\ sigpipeIgnored \in BOOLEAN
  /\ libcDrops \in BOOLEAN
  /\ reapedForeign = FALSE
  /\ everBuffered = FALSE

\* ------------------------------------------------------------- construction
\* outcomes of the two fcntl calls of set_fd_flags / reset_fd_flags
FcntlResults == {"ok", "getfl", "setfl"}

\* set_fd_flags that writes back the flags it read without adding the flag
set_fd_flags_KeepsFlags(flag, r) == [threw |-> r # "ok", flag |-> flag]

\* set_fd_flags(fd, O_NONBLOCK): throws when either fcntl fails
set_fd_flags(flag, r) ==
  [threw |-> r # "ok", flag |-> IF r = "ok" THEN TRUE ELSE flag]

\* reset_fd_flags that writes back the flags it read without clearing the flag
reset_fd_flags_KeepsFlag(flag, r) == [threw |-> r # "ok", flag |-> flag]

\* reset_fd_flags(fd, O_NONBLOCK): throws when either fcntl fails
reset_fd_flags(flag, r) ==
  [threw |-> r # "ok", flag |-> IF r = "ok" THEN FALSE ELSE flag]

\* create_pipe(pipefd): both ends open, or throws
create_pipe(ok) ==
  [threw |-> ~ok, rd |-> IF ok THEN "open" ELSE "unset",
   wr |-> IF ok THEN "open" ELSE "unset"]

\* a child branch that leaves its copy of the write end open across execl
ChildBranchFds_KeepsWriteEnd == {"stdin", "pipe1"}

\* the descriptors the command holds after the child branch: the read end as
\* standard input; both pipe descriptors are closed before execl
ChildBranchFds == {"stdin"}

\* the parent's pid after fork(): -1 on failure
fork(ok) == IF ok THEN ChildPid ELSE -1

\* sink_impl::sink_impl -> create_command_process(cmd).
\* Inputs: whether pipe(), fork(), the fcntl calls of set_fd_flags, the
\* F_SETFD call and fdopen() succeed.
create_command_process(pipeOk, forkOk, fl, setfdOk, fdopenOk) ==
  LET cp  == create_pipe(pipeOk)
      pid == fork(forkOk)
      sf  == set_fd_flags(FALSE, fl)
  IN
  /\ pc = "Constructing"
  /\ UNCHANGED <<d_in_item_sz, d_unbuffered, buf, ferr, errno, pipe, childKind,
                 childCode, childRead, inPos, lastWork, outcome, envVars,
                 reapedForeign>>
  /\ IF cp.threw
       THEN \* create_pipe throws "pipe() error"
            /\ pc' = "ConstructFailed"
            /\ fault' = "pipe() error"
            /\ UNCHANGED <<d_cmd_pid, d_cmd_stdin, fdVars, child, child_fds>>
     ELSE IF pid = -1
       THEN \* perror("fork()"); return: the constructor completes
            /\ pc' = "Running"
            /\ fault' = "none"
            /\ d_cmd_pid' = pid
            /\ fd_read' = cp.rd
            /\ fd_write' = cp.wr
            /\ UNCHANGED <<d_cmd_stdin, nonblock, cloexec, child, child_fds>>
     ELSE \* the child runs the command; the parent closes the read end
          /\ d_cmd_pid' = pid
          /\ child' = "running"
          /\ child_fds' = ChildBranchFds
          /\ fd_read' = "closed"
          /\ fd_write' = cp.wr
          /\ nonblock' = sf.flag
          /\ IF sf.threw
               THEN /\ pc' = "ConstructFailed"
                    /\ fault' = "fcntl() error"
                    /\ UNCHANGED <<d_cmd_stdin, cloexec>>
               ELSE /\ cloexec' = setfdOk
                    /\ IF fdopenOk
                         THEN /\ d_cmd_stdin' = "open"
                              /\ pc' = "Running"
                              /\ fault' = "none"
                         ELSE /\ pc' = "ConstructFailed"
                              /\ fault' = "fdopen() error"
                              /\ UNCHANGED d_cmd_stdin

Construct ==
  \E pipeOk, forkOk, setfdOk, fdopenOk \in BOOLEAN : \E fl \in FcntlResults :
    create_command_process(pipeOk, forkOk, fl, setfdOk, fdopenOk)

\* ------------------------------------------------------------- steady state
\* write_process_input, lines 194-200: the call throws when fwrite returned
\* 0, the error indicator is set and errno is not EAGAIN / EWOULDBLOCK.
\* A write that raised SIGPIPE or suspended the caller never gets here.
Halted(w) == w.err \in {"SIGPIPE", "BLOCK"}

Throws(w) ==
  /\ ~Halted(w)
  /\ w.ret = 0
  /\ FerrAfter(ferr, w.err)
  /\ ErrnoAfter(errno, w.err) # "EAGAIN"

\* write_process_input, lines 202-203: fflush when d_unbuffered is set
FlushIfUnbuffered(w, e) ==
  IF d_unbuffered /\ ~Halted(w) /\ ~Throws(w)
    THEN fflush(w.buf, w.pipe, e)
    ELSE [buf |-> w.buf, pipe |-> w.pipe, n |-> 0, err |-> "NONE"]

\* the state the call leaves and what it returns, from the results w of
\* fwrite and fl of the flush step; errs holds what the pipe writes ended in
WriteResult(w, fl) ==
  [buf    |-> fl.buf,
   pipe   |-> fl.pipe,
   ferr   |-> FerrAfter(FerrAfter(ferr, w.err), fl.err),
   errno  |-> ErrnoAfter(ErrnoAfter(errno, w.err), fl.err),
   ret    |-> w.ret,
   bytes  |-> w.bytes,
   raised |-> Throws(w),
   errs   |-> {w.err, fl.err}]

AfterFwrite(w, e) == WriteResult(w, FlushIfUnbuffered(w, e))

\* write_process_input(in, nitems) on the bytes `data` of the nitems records
write_process_input(data, e) ==
  AfterFwrite(fwrite(data, d_in_item_sz, buf, pipe, e), e)

\* the value work() returns, given what write_process_input returned
work_return(noutput_items, n_consumed) == noutput_items

\* what a work() call leaves behind, given the result r of
\* write_process_input and the value ret the call returns: a write that
\* raised SIGPIPE kills the host, a suspended write never returns, an
\* exception leaves the read position alone, and after a return the
\* scheduler advances its read position by the value returned
WorkEffect(noutput_items, r, ret) ==
  /\ buf' = r.buf
  /\ pipe' = r.pipe
  /\ ferr' = r.ferr
  /\ errno' = r.errno
  /\ lastWork' = [called |-> TRUE, count |-> noutput_items, ret |-> ret,
                  accepted |-> r.ret, bytes |-> r.bytes,
                  raised |-> r.raised,
                  wouldblock |-> "EAGAIN" \in r.errs,
                  hard |-> "EPIPE" \in r.errs, unbuf |-> d_unbuffered]
  /\ IF "SIGPIPE" \in r.errs
       THEN /\ pc' = "Dead"
            /\ fault' = "SIGPIPE in work"
            /\ UNCHANGED inPos
     ELSE IF "BLOCK" \in r.errs
       THEN /\ pc' = "Blocked"
            /\ UNCHANGED <<fault, inPos>>
     ELSE IF r.raised
       THEN \* throw std::runtime_error("fwrite() error")
            UNCHANGED <<pc, fault, inPos>>
     ELSE /\ inPos' = inPos + ret * d_in_item_sz
          /\ UNCHANGED <<pc, fault>>

\* sink_impl::work(noutput_items, ...): the scheduler offers the next
\* noutput_items records of the input stream.  The call never waits, so it
\* is one step; the child reads between calls.
work(noutput_items) ==
  /\ pc = "Running"
  /\ d_cmd_stdin = "open"
  /\ inPos + noutput_items * d_in_item_sz <= MaxBytes
  /\ \E r \in {write_process_input(
                 Bytes(inPos + 1, inPos + noutput_items * d_in_item_sz), Env)} :
       WorkEffect(noutput_items, r, work_return(noutput_items, r.ret))
  /\ everBuffered' = (everBuffered \/ ~d_unbuffered)
  /\ UNCHANGED <<sinkVars, fdVars, childVars, outcome, hostVars, reapedForeign>>

\* work() on a sink whose constructor returned after a failed fork():
\* d_cmd_stdin was never assigned, so fwrite on it is undefined; the call
\* crashes the host, throws, or returns.
work_half_initialized(noutput_items, how) ==
  /\ pc = "Running"
  /\ d_cmd_stdin = "invalid"
  /\ inPos + noutput_items * d_in_item_sz <= MaxBytes
  /\ lastWork' = [called |-> TRUE, count |-> noutput_items,
                  ret |-> work_return(noutput_items, 0),
                  accepted |-> 0, bytes |-> 0, raised |-> how = "throw",
                  wouldblock |-> FALSE, hard |-> FALSE, unbuf |-> d_unbuffered]
  /\ IF how = "crash"
       THEN pc' = "Dead" /\ fault' = "crash in work" /\ UNCHANGED inPos
     ELSE IF how = "throw"
       THEN UNCHANGED <<pc, fault, inPos>>
     ELSE /\ inPos' = inPos + work_return(noutput_items, 0) * d_in_item_sz
          /\ UNCHANGED <<pc, fault>>
  /\ everBuffered' = (everBuffered \/ ~d_unbuffered)
  /\ UNCHANGED <<sinkVars, fdVars, stdioVars, pipe, childVars, outcome,
                 hostVars, reapedForeign>>

MaxItems == MaxBytes

Work == \E n \in 0..MaxItems : work(n)

WorkHalfInitialized ==
  \E n \in 0..MaxItems : \E how \in {"crash", "throw", "return"} :
    work_half_initialized(n, how)

\* sink_impl::set_unbuffered(unbuffered)
set_unbuffered(unbuffered) ==
  /\ pc = "Running"
  /\ d_unbuffered' = unbuffered
  /\ UNCHANGED <<pc, fault, d_in_item_sz, d_cmd_pid, d_cmd_stdin, fdVars,
                 stdioVars, pipe, childVars, inPos, lastWork, outcome,
                 envVars, reapedForeign>>

\* sink_impl::unbuffered()
unbuffered == d_unbuffered

SetUnbuffered == \E b \in BOOLEAN : b # d_unbuffered /\ set_unbuffered(b)

\* Other code of the host process changes errno between two calls of the
\* sink.  The sink reads errno only in write_process_input, and there only
\* when the stream's error indicator is set; every failed write that sets the
\* indicator also sets errno, so a change made while the indicator is clear
\* is overwritten before the sink can read it and is left out.
ErrnoChange ==
  /\ pc = "Running"
  /\ ferr
  /\ \E en \in {"EAGAIN", "EINTR"} : en # errno /\ errno' = en
  /\ UNCHANGED <<pc, fault, sinkVars, fdVars, buf, ferr, pipe, childVars,
                 inPos, lastWork, outcome, envVars, reapedForeign>>

\* -------------------------------------------------------------------- child
\* the command reads one byte of its standard input
ChildRead ==
  /\ child = "running"
  /\ childKind \in {"cat", "quit"}
  /\ pipe # <<>>
  /\ childRead' = Append(childRead, Head(pipe))
  /\ pipe' = Tail(pipe)
  /\ UNCHANGED <<pc, fault, sinkVars, fdVars, stdioVars, child, childKind,
                 childCode, child_fds, inPos, lastWork, outcome, envVars,
                 reapedForeign>>

\* the command sees end-of-file once the pipe is empty and has no writer
AtEof == pipe = <<>> /\ ~WriterExists

\* the command terminates: "cat" exits with its code at end-of-file, "quit"
\* exits or is killed by a signal at any moment.  Its descriptors close.
ChildExit ==
  /\ child = "running"
  /\ \/ /\ childKind = "cat"
        /\ AtEof
        /\ child' = "exited"
        /\ childCode' \in ExitCodes
     \/ /\ childKind = "quit"
        /\ \/ child' = "exited" /\ childCode' \in ExitCodes
           \/ child' = "signaled" /\ UNCHANGED childCode
  /\ child_fds' = {}
  /\ UNCHANGED <<pc, fault, sinkVars, fdVars, stdioVars, pipe, childKind,
                 childRead, inPos, lastWork, outcome, envVars, reapedForeign>>

\* ----------------------------------------------------------------- teardown
\* ~sink_impl, first statement: reset_fd_flags(d_cmd_stdin_pipe[1],
\* O_NONBLOCK).  An exception of reset_fd_flags leaves the destructor.
dtor_reset_fd_flags(fl) ==
  LET rf == reset_fd_flags(nonblock, fl)
  IN
  /\ pc = "Running"
  /\ nonblock' = rf.flag
  /\ IF rf.threw
       THEN pc' = "Dead" /\ fault' = "exception in destructor"
       ELSE pc' = "dtor_fclose" /\ UNCHANGED fault
  /\ UNCHANGED <<sinkVars, fd_read, fd_write, cloexec, stdioVars, pipe,
                 childVars, inPos, lastWork, outcome, envVars, reapedForeign>>

DtorReset == \E fl \in FcntlResults : dtor_reset_fd_flags(fl)

\* ~sink_impl: fclose(d_cmd_stdin) on the stream fdopen returned.  The
\* buffer is written out; on the blocking descriptor a full pipe suspends
\* the call, which goes on as the child reads.  Then the descriptor closes.
\* what fclose leaves behind, given the result f of writing the buffer out
FcloseEffect(f) ==
  /\ pipe' = f.pipe
  /\ CASE f.err = "SIGPIPE" ->
            /\ pc' = "Dead"
            /\ fault' = "SIGPIPE in fclose"
            /\ UNCHANGED <<buf, ferr, errno, d_cmd_stdin, fd_write>>
       [] f.err = "BLOCK" ->
            /\ f.n > 0
            /\ buf' = f.buf
            /\ UNCHANGED <<pc, fault, ferr, errno, d_cmd_stdin, fd_write>>
       [] OTHER ->
            /\ buf' = <<>>
            /\ ferr' = FerrAfter(ferr, f.err)
            /\ errno' = ErrnoAfter(errno, f.err)
            /\ d_cmd_stdin' = "closed"
            /\ fd_write' = "closed"
            /\ pc' = "dtor_wait"
            /\ UNCHANGED fault

dtor_fclose ==
  /\ pc = "dtor_fclose"
  /\ d_cmd_stdin = "open"
  /\ \E f \in {Flush(buf, pipe, Env)} : FcloseEffect(f)
  /\ UNCHANGED <<d_in_item_sz, d_unbuffered, d_cmd_pid, fd_read, nonblock,
                 cloexec, childVars, inPos, lastWork, outcome, envVars,
                 reapedForeign>>

\* ~sink_impl: fclose(d_cmd_stdin) when d_cmd_stdin was never assigned
\* (fork() failed): undefined; the host crashes or the call returns
dtor_fclose_half_initialized(how) ==
  /\ pc = "dtor_fclose"
  /\ d_cmd_stdin = "invalid"
  /\ IF how = "crash"
       THEN pc' = "Dead" /\ fault' = "crash in fclose"
       ELSE pc' = "dtor_wait" /\ UNCHANGED fault
  /\ UNCHANGED <<sinkVars, fdVars, stdioVars, pipe, childVars, inPos,
                 lastWork, outcome, envVars, reapedForeign>>

DtorFcloseHalfInitialized ==
  \E how \in {"crash", "return"} : dtor_fclose_half_initialized(how)

\* a report that prints the exit code without taking it from the status
Report_DropsCode(status, code) ==
  IF status = "exited" THEN [kind |-> "ExitedWithCode", code |-> 0]
  ELSE [kind |-> "AbnormalTermination", code |-> 0]

\* the termination outcome the destructor reports for a wait status
Report(status, code) ==
  IF status = "exited" THEN [kind |-> "ExitedWithCode", code |-> code]
  ELSE [kind |-> "AbnormalTermination", code |-> 0]

WaitFailed == [kind |-> "WaitFailed", code |-> 0]

\* an interrupted wait that is taken for a failed one: no retry
dtor_waitpid_eintr_ReportsFailure ==
  /\ pc = "dtor_wait"
  /\ d_cmd_pid = ChildPid
  /\ child = "running"
  /\ errno # "EINTR"
  /\ errno' = "EINTR"
  /\ pc' = "Terminated"
  /\ outcome' = WaitFailed
  /\ UNCHANGED <<fault, sinkVars, fdVars, buf, ferr, pipe, childVars,
                 inPos, lastWork, envVars, reapedForeign>>

\* ~sink_impl: waitpid(d_cmd_pid, &pstat, 0) was interrupted by a signal
\* while the child runs; the loop calls it again
dtor_waitpid_eintr ==
  /\ pc = "dtor_wait"
  /\ d_cmd_pid = ChildPid
  /\ child = "running"
  /\ errno # "EINTR"
  /\ errno' = "EINTR"
  /\ UNCHANGED <<pc, fault, sinkVars, fdVars, buf, ferr, pipe, childVars,
                 inPos, lastWork, outcome, envVars, reapedForeign>>

\* ~sink_impl: waitpid(d_cmd_pid, &pstat, 0) returns for the sink's child,
\* which has terminated; the outcome is reported from its status.
dtor_waitpid ==
  /\ pc = "dtor_wait"
  /\ d_cmd_pid = ChildPid
  /\ child \in {"exited", "signaled"}
  /\ child' = "reaped"
  /\ pc' = "Terminated"
  /\ outcome' = Report(child, childCode)
  /\ UNCHANGED <<fault, sinkVars, fdVars, stdioVars, pipe, childKind,
                 childCode, child_fds, childRead, inPos, lastWork, envVars,
                 reapedForeign>>

\* ~sink_impl: waitpid(-1, &pstat, 0) after fork() failed waits for any
\* child of the host: it fails with ECHILD when the host has none, else it
\* returns the status of a child the sink did not spawn.
dtor_waitpid_any(foreign, status, code) ==
  /\ pc = "dtor_wait"
  /\ d_cmd_pid = -1
  /\ pc' = "Terminated"
  /\ reapedForeign' = foreign
  /\ IF foreign
       THEN outcome' = Report(status, code) /\ UNCHANGED errno
       ELSE outcome' = WaitFailed /\ errno' = "ECHILD"
  /\ UNCHANGED <<fault, sinkVars, fdVars, buf, ferr, pipe, childVars, inPos,
                 lastWork, envVars>>

DtorWaitpidAny ==
  \E foreign \in BOOLEAN : \E status \in {"exited", "signaled"} :
    \E code \in ExitCodes : dtor_waitpid_any(foreign, status, code)

\* --------------------------------------------------------------------- Next
Next ==
  \/ Construct
  \/ Work
  \/ WorkHalfInitialized
  \/ SetUnbuffered
  \/ ErrnoChange
  \/ ChildRead
  \/ ChildExit
  \/ DtorReset
  \/ dtor_fclose
  \/ DtorFcloseHalfInitialized
  \/ dtor_waitpid_eintr
  \/ dtor_waitpid
  \/ DtorWaitpidAny

Spec == Init /\ [][Next]_vars

\* the operating system schedules the child, so a command that can read
\* does, and one that has seen end-of-file exits; the thread in the
\* destructor goes on with the calls that can return
Fairness ==
  /\ WF_vars(ChildRead)
  /\ WF_vars(ChildExit)
  /\ WF_vars(dtor_fclose)
  /\ WF_vars(dtor_waitpid)

FairSpec == Spec /\ Fairness

TypeOK ==
  /\ pc \in {"Constructing", "ConstructFailed", "Running", "Blocked",
             "dtor_fclose", "dtor_wait", "Terminated", "Dead"}
  /\ d_cmd_pid \in {0, -1, ChildPid}
  /\ d_cmd_stdin \in {"invalid", "open", "closed"}
  /\ fd_read \in {"unset", "open", "closed"}
  /\ fd_write \in {"unset", "open", "closed"}
  /\ Len(buf) <= BufSize
  /\ Len(pipe) <= pipeCap
  /\ errno \in Errnos
  /\ child \in {"none", "running", "exited", "signaled", "reaped"}
  /\ inPos \in 0..MaxBytes

\* --------------------------------------------------------------- lifecycle
\* the constructor returned although fork() failed: no child, no stream
HalfInitialized == d_cmd_pid = -1 /\ pc # "ConstructFailed"

\* the lifecycle state of the sink as the design names it
State ==
  CASE pc = "Constructing" -> "Constructing"
    [] pc = "ConstructFailed" -> "ConstructFailed"
    [] pc \in {"Running", "Blocked"} ->
         IF HalfInitialized THEN "HalfInitialized" ELSE "Running"
    [] pc \in {"dtor_fclose", "dtor_wait"} -> "Draining"
    [] pc = "Terminated" -> "Terminated"
    [] OTHER -> "Dead"

\* the command is running and reads its standard input to end-of-file
Cooperating == childKind = "cat" /\ child = "running"

Range(seq) == {seq[i] : i \in 1..Len(seq)}

\* the bytes of the input stream on their way to the child, oldest first
InFlight == childRead \o pipe \o buf

\* --------------------------------------------------------------- properties

\* C1: round trip.  After teardown of a sink all of whose work() calls ran
\* in unbuffered mode and returned, with a child that read to end-of-file,
\* the child has read exactly the records handed to those calls, in order.
\* It is stated for a C library that keeps its unwritten bytes after a failed
\* write, the case most favourable to the law.
C1_RoundTrip ==
  (/\ pc = "Terminated"
   /\ ~HalfInitialized
   /\ childKind = "cat"
   /\ ~everBuffered
   /\ ~libcDrops)
  => childRead = Bytes(1, inPos)

\* C2: every work() call that would-block cut short returns without raising,
\* and every call that returns reports the number of whole records accepted:
\* between 0 and count, and below count when fewer than count were accepted.
C2_ReportsAccepted ==
  (lastWork.called /\ State = "Running")
  => /\ (lastWork.wouldblock /\ lastWork.accepted < lastWork.count)
          => ~lastWork.raised
     /\ ~lastWork.raised
          => /\ lastWork.ret \in 0..lastWork.count
             /\ lastWork.ret = lastWork.accepted

\* C3: no record handed to work() is lost for good.  The scheduler only ever
\* offers bytes beyond inPos, so a byte at or below inPos that is neither
\* with the child nor in the pipe nor in the buffer can never be delivered.
C3_NoRecordLost ==
  (State = "Running" /\ Cooperating)
  => \A k \in 1..inPos : k \in Range(InFlight)

\* C4: after a failed fork() the construction fails, and no work() call or
\* teardown ever runs on a sink without a child and an attached stream.
C4_ForkFailureFailsConstruction ==
  /\ d_cmd_pid = -1 => pc = "ConstructFailed"
  /\ pc \notin {"Constructing", "ConstructFailed"}
       => d_cmd_pid = ChildPid /\ d_cmd_stdin # "invalid"

\* C5: when construction has failed with an error, the parent holds no open
\* pipe descriptor.
C5_FailedConstructionClosesDescriptors ==
  pc = "ConstructFailed" => fd_read # "open" /\ fd_write # "open"

\* C6: teardown of a constructed sink never leaves the destructor by an
\* exception.
C6_TeardownNeverRaises ==
  ~HalfInitialized => fault # "exception in destructor"

\* C7: teardown of a sink whose child is running and reads to end-of-file
\* terminates.  It reaches Terminated only after that child has exited and
\* been waited for, and the outcome it reports is ExitedWithCode(c) with c
\* the code the child exited with.
C7_TeardownReportsExitCode ==
  /\ [](pc = "Terminated" /\ ~HalfInitialized => child = "reaped")
  /\ []((pc = "Terminated" /\ ~HalfInitialized /\ childKind = "cat")
          => outcome = [kind |-> "ExitedWithCode", code |-> childCode])
  /\ ((State = "Draining" /\ Cooperating) ~> pc = "Terminated")

\* C7 witness: a teardown that had bytes to deliver ended with the child's
\* nonzero exit code reported
C7_Witness ==
  /\ pc = "Terminated"
  /\ childKind = "cat"
  /\ childRead # <<>>
  /\ outcome = [kind |-> "ExitedWithCode", code |-> 7]

\* C8: a work() call on a sink whose child has exited leaves the host
\* process alive.
C8_BrokenPipeKeepsHostAlive == fault # "SIGPIPE in work"

\* C9: a work() call that met a hard pipe write error, in fwrite or in the
\* flush of unbuffered mode, raises it to its caller.
C9_HardErrorSurfaced ==
  (lastWork.called /\ lastWork.hard) => lastWork.raised

\* C10: from entering Running until teardown starts the write descriptor is
\* in non-blocking mode, and no work() call is ever suspended in a write.
C10_WorkNeverBlocks ==
  /\ State = "Running" => nonblock
  /\ pc # "Blocked"

\* C10 witness: a work() call in buffered mode returned although the child
\* never reads and the pipe is full
C10_Witness ==
  /\ State = "Running"
  /\ childKind = "stall"
  /\ Len(pipe) = pipeCap
  /\ lastWork.called
  /\ ~lastWork.unbuf
  /\ lastWork.wouldblock

\* C11: teardown emits exactly one diagnostic outcome, chosen by the result
\* of the wait.  Nothing is reported before the wait resolves, an
\* interrupted wait is retried without a report, and the step that resolves
\* the wait reports ExitedWithCode(c) for a child that exited with c,
\* AbnormalTermination for a child that did not exit normally, and WaitFailed
\* exactly when the wait failed with an error other than EINTR.
C11_OneDiagnosticOutcome ==
  /\ [](pc # "Terminated" => outcome = NoOutcome)
  /\ [](pc = "Terminated"
          => outcome.kind \in {"ExitedWithCode", "AbnormalTermination",
                               "WaitFailed"})
  /\ [][(pc = "dtor_wait" /\ pc' = "Terminated")
          => /\ d_cmd_pid = ChildPid
                  => /\ child \in {"exited", "signaled"}
                     /\ child = "exited"
                          => outcome' = [kind |-> "ExitedWithCode",
                                         code |-> childCode]
                     /\ child = "signaled"
                          => outcome'.kind = "AbnormalTermination"
             /\ outcome'.kind = "WaitFailed"
                  <=> (errno' = "ECHILD" /\ ~reapedForeign')]_vars
  /\ [][(pc = "dtor_wait" /\ pc' = "dtor_wait") => outcome' = NoOutcome]_vars

\* C11 witness: the wait was interrupted while the child ran, was called
\* again, and the teardown reported the child's death by a signal
C11_Witness ==
  /\ pc = "Terminated"
  /\ d_cmd_pid = ChildPid
  /\ errno = "EINTR"
  /\ ~ferr
  /\ outcome.kind = "AbnormalTermination"

\* C12: toggling the unbuffered flag is stream-neutral.  A set_unbuffered
\* call changes d_unbuffered and nothing else, and unbuffered() then returns
\* the value set; and after teardown of a sink whose flag was toggled between
\* two work() calls, with a child that read to end-of-file, the child has
\* read exactly the records handed to the calls, in order, as the
\* concatenation law says it has without toggling.
C12_ToggleIsStreamNeutral ==
  /\ [][d_unbuffered' # d_unbuffered
          => /\ unbuffered' = d_unbuffered'
             /\ UNCHANGED <<pc, fault, d_in_item_sz, d_cmd_pid, d_cmd_stdin,
                            fdVars, stdioVars, pipe, childVars, inPos,
                            lastWork, outcome, envVars, reapedForeign>>]_vars
  /\ [](( /\ pc = "Terminated"
          /\ ~HalfInitialized
          /\ childKind = "cat"
          /\ everBuffered
          /\ lastWork.unbuf)
        => childRead = Bytes(1, inPos))

\* C13: drain ordering at teardown.  The write descriptor is in blocking
\* mode whenever the flush/close is under way; the wait starts only from the
\* flush/close, and on a constructed sink only with the stream closed and
\* its buffer empty; Terminated is entered only from the wait, with its
\* outcome reported.  With a child that reads to end-of-file no step of the
\* flush/close drops a byte: what was in the buffer, the pipe and the
\* child's input when teardown started is still there, in order, and by the
\* time the write end is closed none of it is left in the buffer.
C13_DrainOrdering ==
  /\ [](pc = "dtor_fclose" => ~nonblock)
  /\ []((pc = "dtor_wait" /\ ~HalfInitialized)
          => d_cmd_stdin = "closed" /\ fd_write = "closed" /\ buf = <<>>)
  /\ []((fd_write = "closed" /\ ~HalfInitialized)
          => pc \in {"dtor_wait", "Terminated"} /\ buf = <<>>)
  /\ [](pc = "Terminated" => outcome # NoOutcome)
  /\ [][pc' # pc
          => CASE pc' = "dtor_fclose" -> pc = "Running"
               [] pc' = "dtor_wait"   -> pc = "dtor_fclose"
               [] pc' = "Terminated"  -> pc = "dtor_wait"
               [] OTHER -> TRUE]_vars
  /\ [][(pc = "dtor_fclose" /\ ~HalfInitialized /\ childKind = "cat")
          => InFlight' = InFlight /\ pc' # "Dead"]_vars

\* C13 witness: one buffered work() call filled the buffer, teardown began
\* with the child not having read, fclose waited on the one-byte pipe, and
\* the wait has started with every byte in the pipe or with the child
C13_Witness ==
  /\ pc = "dtor_wait"
  /\ childKind = "cat"
  /\ child = "running"
  /\ pipeCap = 1
  /\ ~lastWork.unbuf
  /\ lastWork.accepted = BufSize
  /\ inPos = BufSize
  /\ childRead \o pipe = Bytes(1, BufSize)

\* C14: teardown's wait is targeted.  In every teardown the wait is made for
\* the pid of the child this sink spawned, and it never takes the status of
\* a child the sink did not spawn, such as the child of another sink of the
\* host process.
C14_WaitIsTargeted ==
  /\ pc \in {"dtor_wait", "Terminated"} => d_cmd_pid = ChildPid
  /\ ~reapedForeign

\* C15: descriptor ownership.  While a sink is Running, and while it drains,
\* the parent's copy of the read end is closed; while Running the parent
\* holds the write end, and the command, as long as it runs, holds the read
\* end as its standard input and nothing else of the pipe.  Hence once
\* teardown has closed the parent's write end the pipe has no writer, and a
\* command that has read the pipe empty is at end-of-file.
C15_DescriptorOwnership ==
  /\ State \in {"Running", "Draining"} /\ ~HalfInitialized
       => /\ fd_read = "closed"
          /\ child_fds \subseteq {"stdin"}
          /\ child = "running" => child_fds = {"stdin"}
  /\ State = "Running" => fd_write = "open"
  /\ (fd_write = "closed" /\ ~HalfInitialized)
       => /\ ~WriterExists
          /\ pipe = <<>> => AtEof

\* C15 witness: teardown closed the write end, and the command read all the
\* bytes written, saw end-of-file and exited while the destructor waits
C15_Witness ==
  /\ pc = "dtor_wait"
  /\ fd_write = "closed"
  /\ childKind = "cat"
  /\ child = "exited"
  /\ inPos > 0
  /\ childRead = Bytes(1, inPos)

\* C16: whole-record delivery.  At every return from a write call the bytes
\* of the call's batch that the stream has taken are a whole number of
\* records, namely the number of records the call returned.
C16_WholeRecordDelivery ==
  (lastWork.called /\ ~lastWork.raised /\ State = "Running")
  => /\ lastWork.bytes % d_in_item_sz = 0
     /\ lastWork.bytes = lastWork.accepted * d_in_item_sz

\* C17: unbuffered flush.  At the return of a write call made with the
\* unbuffered flag set that accepted at least one record, the stream's
\* buffer is empty, and every byte the call accepted is in the pipe or has
\* been read by the child.
C17_UnbufferedFlush ==
  (/\ State = "Running"
   /\ lastWork.called
   /\ lastWork.unbuf
   /\ ~lastWork.raised
   /\ lastWork.accepted >= 1)
  => /\ buf = <<>>
     /\ \A k \in 1..lastWork.bytes :
          (inPos - lastWork.ret * d_in_item_sz + k) \in Range(childRead \o pipe)

\* C18: a failure to set O_NONBLOCK or FD_CLOEXEC on the write descriptor
\* fails the construction with an error that is neither the pipe-creation
\* nor the spawn error, and the write descriptor of every sink the
\* constructor returned with its child spawned has both flags.
C18_FlagFailureFailsConstruction ==
  /\ State = "Running" => nonblock /\ cloexec
  /\ (pc = "ConstructFailed" /\ fd_write = "open" /\ d_cmd_stdin = "invalid"
      /\ ~nonblock)
       => fault = "fcntl() error"

\* C19: would-block is never escalated.  While the command runs it holds the
\* read end, so every pipe write so far has succeeded or failed with EAGAIN;
\* in such a run no work() call, whatever its count and whatever errno was
\* changed to between calls, raises the fatal write failure.
C19_WouldBlockNeverEscalated ==
  (/\ lastWork.called
   /\ ~HalfInitialized
   /\ child = "running"
   /\ ~lastWork.hard)
  => ~lastWork.raised

\* C20: no leak over a lifecycle.  The sink never has more than its one
\* child, and when the lifecycle has ended, by a construction failure or in
\* Terminated after a wait that did not fail, the parent holds no open
\* descriptor of the pipe and a child that was spawned has been reaped.
C20_NoLeakOverLifecycle ==
  /\ d_cmd_pid \in {0, -1, ChildPid}
  /\ child # "none" => d_cmd_pid = ChildPid
  /\ (\/ pc = "ConstructFailed"
      \/ pc = "Terminated" /\ outcome.kind # "WaitFailed")
       => /\ fd_read # "open"
          /\ fd_write # "open"
          /\ child \in {"none", "reaped"}

====
